---- MODULE Spec2Model ----
(***************************************************************************)
(* A model of `shave`: the one-shot screenshot run of src/src/lib.rs       *)
(* (with_fantoccini inside with_child, with find_localhost_port polling    *)
(* the proc file system) and the Client based run of src/src/client.rs    *)
(* driven by src/cli/src/main.rs.                                          *)
(*                                                                         *)
(* Time is counted in milliseconds.  The kernel's socket state (`socks`)   *)
(* changes concurrently with the port discovery.                           *)
(***************************************************************************)
EXTENDS Integers, Sequences, FiniteSets, TLC

VARIABLES
  prog,        \* which entry point runs: "lib" (lib.rs screenshot) or "cli" (cli run)
  opts,        \* the ScreenshotOpts / command the session runs with
  pc,          \* position of the run
  child,       \* the driver process handle: "none", "running", "killed", "dropped"
  kills,       \* number of kill requests issued against the driver process
  dataDir,     \* the temporary profile directory: "none", "exists", "removed"
  calls,       \* the session operations invoked so far, in order
  bodyResult,  \* `result` of with_child / of cli run: outcome of the body
  result,      \* what the run returned to its caller ("none" while running)
  socks,       \* the live TCP sockets of the machine
  clock,       \* the monotonic clock, in ms
  fpc,         \* position inside find_localhost_port
  start,       \* `start` of find_localhost_port
  inodes,      \* `inodes` of the current attempt
  found,       \* `result` of the current attempt: what `find` returned
  port,        \* the port find_localhost_port returned
  ferr,        \* the error find_localhost_port returned ("none" if none)
  wake,        \* the deadline of the pending sleep
  slept,       \* whether this discovery has slept
  held,        \* loopback sockets the driver has held ever since discovery began
  closedSinceFds, \* whether a socket was closed since the attempt's fd enumeration
  unit,        \* which reader of the proc file system runs on its own: "none", "tcp", "fd"
  tcpFile,     \* the lines of the proc tcp file handed to parse_file
  tcpPos,      \* TcpEntryIter.reader: the number of lines consumed
  skipped_header, \* TcpEntryIter.skipped_header
  tcpItems,    \* what TcpEntryIter::next has returned so far, in order
  readErrs,    \* the number of reads of the file that failed
  fdDir,       \* the fd directory handed to socket_inodes
  fdPos,       \* the number of directory entries consumed
  fdItems,     \* what socket_inodes has returned so far, in order
  fdRes,       \* what socket_inodes itself returned: "none" (not called), "ok", "err"
  winArg,      \* the --window-size argument handed to parse_window_size
  winRes,      \* what parse_window_size returned for it
  runs,        \* two concurrent one-shot runs: position, pid, directory, discovery
  procs,       \* the process table: pid -> "free" or "running"
  dirs,        \* the names that exist in the temporary directory
  psocks       \* the live loopback sockets of the processes of `procs`

procVars == <<unit, tcpFile, tcpPos, skipped_header, tcpItems, readErrs,
              fdDir, fdPos, fdItems, fdRes, winArg, winRes>>

pairVars == <<runs, procs, dirs, psocks>>

vars == <<prog, opts, pc, child, kills, dataDir, calls, bodyResult, result,
          socks, clock, fpc, start, inodes, found, port, ferr, wake, slept,
          held, closedSinceFds, procVars, pairVars>>

runVars == <<prog, opts, pc, child, kills, dataDir, calls, bodyResult, result>>
findVars == <<fpc, start, inodes, found, port, ferr, wake, slept>>
envVars == <<socks, clock, held, closedSinceFds>>

----
\* Bounds of the model.
MaxSocks == 1
MaxPort == 2
MaxInode == 2
MaxBadLines == 1
MaxPromptWakes == 1
MaxBigTicks == 3
BigTick == 15000
FileInode == 1
MaxLines == 3
MaxReadErrs == 1
MaxFds == 3
MaxPids == 2
MaxNames == 2
MaxTableSocks == 2
MaxArgLen == 4

\* Program constants.
PORT_FIND_TIMEOUT == 30000
SleepMs == 1
DefaultWidth == 3840
DefaultHeight == 2160

LOCALHOST == <<127, 0, 0, 1>>
UNSPECIFIED == <<0, 0, 0, 0>>

Ports == 1..MaxPort
Inodes == 1..MaxInode
Addrs == {LOCALHOST, UNSPECIFIED}
Owners == {"driver", "other"}
MaxClock == BigTick * MaxBigTicks

----
\* The proc file system.

\* A live socket: who holds its descriptor, its inode, its local address.
Socket == [owner : Owners, inode : Inodes, addr : Addrs, port : Ports]

\* The entries of /proc/<pid>/fd of the driver: its sockets and one descriptor
\* that is not a socket (the stdout pipe) whose inode number is FileInode.
FdEntries ==
  {[kind |-> "sock", inode |-> s.inode] : s \in {x \in socks : x.owner = "driver"}}
    \cup {[kind |-> "file", inode |-> FileInode]}

is_socket_any(e) == TRUE
is_socket(e) == e.kind = "sock"

\* socket::socket_inodes collected into a set: the inodes of the entries that
\* check_socket accepts.
socket_inodes == {e.inode : e \in {x \in FdEntries : is_socket(x)}}

\* A parsed line of /proc/<pid>/net/tcp, or the error of a line that failed.
OkItem(s) == [kind |-> "ok", addr |-> s.addr, port |-> s.port, inode |-> s.inode]
ErrItem == [kind |-> "err", addr |-> UNSPECIFIED, port |-> 0, inode |-> 0]
\* `None`: there is no item.
NoItem == [kind |-> "none", addr |-> UNSPECIFIED, port |-> 0, inode |-> 0]

\* All orders in which the table may list the live sockets.
Orders(S) ==
  {t \in [1..Cardinality(S) -> S] : \A i, j \in 1..Cardinality(S) : i # j => t[i] # t[j]}

InsertAt(t, k, x) == SubSeq(t, 1, k - 1) \o <<x>> \o SubSeq(t, k, Len(t))

\* T and the sequences obtained from T by putting up to n failing items
\* anywhere.
RECURSIVE WithBad(_, _)
WithBad(T, n) ==
  IF n = 0 THEN T
  ELSE LET P == WithBad(T, n - 1)
       IN  P \cup UNION {{InsertAt(t, k, ErrItem) : k \in 1..(Len(t) + 1)} : t \in P}

\* The item sequences tcp::parse can yield: one entry per live socket of the
\* machine (the table is not per process), in any order, with up to
\* MaxBadLines items that failed (a malformed line or a failed read).
Tables ==
  WithBad({[i \in 1..Cardinality(socks) |-> OkItem(o[i])] : o \in Orders(socks)},
          MaxBadLines)

----
\* find_localhost_port

\* The closure handed to `find`.
Matches_no_addr(item, ino) ==
  IF item.kind = "ok" THEN item.inode \in ino ELSE TRUE

Matches_skip_err(item, ino) ==
  IF item.kind = "ok"
  THEN IF item.inode \in ino THEN item.addr = LOCALHOST ELSE FALSE
  ELSE FALSE

Matches_unspecified(item, ino) ==
  IF item.kind = "ok"
  THEN IF item.inode \in ino THEN item.addr = UNSPECIFIED ELSE FALSE
  ELSE TRUE

Matches(item, ino) ==
  IF item.kind = "ok"
  THEN IF item.inode \in ino THEN item.addr = LOCALHOST ELSE FALSE
  ELSE TRUE

\* Iterator::find: the index of the first item the closure accepts, 0 for None.
FirstHit_last(t, ino) ==
  LET H == {i \in 1..Len(t) : Matches(t[i], ino)}
  IN  IF H = {} THEN 0 ELSE CHOOSE i \in H : \A j \in H : i >= j

FirstHit(t, ino) ==
  LET H == {i \in 1..Len(t) : Matches(t[i], ino)}
  IN  IF H = {} THEN 0 ELSE CHOOSE i \in H : \A j \in H : i <= j

\* `tcp::parse(pid)?.find(...)`: the first accepted item of the table, if any.
find(t, ino) == IF FirstHit(t, ino) = 0 THEN NoItem ELSE t[FirstHit(t, ino)]

\* `start.elapsed() >= PORT_FIND_TIMEOUT`
TimedOut(s, now) == now - s >= PORT_FIND_TIMEOUT

\* `let start = Instant::now()`
StartTime_spawn(now) == 0
StartTime(now) == now

\* What with_fantoccini's closure does with the outcome of
\* `find_localhost_port(pid).await?`: go on to connect, or leave the closure
\* with the error.
AfterFind_always(e) == "connect"
AfterFind(e) == IF e = "none" THEN "connect" ELSE "kill"

\* find_localhost_port returns error e, or port p if e is "none".
FindReturns(e, p) ==
  /\ fpc' = "done"
  /\ ferr' = e
  /\ port' = p
  /\ pc' = AfterFind(e)
  /\ bodyResult' = IF e = "none" THEN bodyResult ELSE e
  /\ UNCHANGED <<start, inodes, found, wake, slept, held, closedSinceFds>>

\* The locals of find_localhost_port (start, inodes, the table iterator, the
\* sleep) are gone once its caller goes on, and the run never looks at the
\* proc file system or the clock again.
FindLocalsGone ==
  /\ start' = 0 /\ inodes' = {} /\ found' = NoItem /\ wake' = 0 /\ slept' = FALSE
  /\ held' = {} /\ closedSinceFds' = FALSE
  /\ socks' = {} /\ clock' = 0

find_start ==
  /\ prog = "lib" /\ pc = "discover" /\ fpc = "idle"
  /\ fpc' = "fds"
  /\ start' = StartTime(clock)
  /\ slept' = FALSE
  /\ held' = {s \in socks : s.owner = "driver" /\ s.addr = LOCALHOST}
  /\ UNCHANGED <<prog, opts, pc, child, kills, dataDir, calls, bodyResult, result,
                 socks, clock, inodes, found, port, ferr, wake, closedSinceFds>>
  /\ UNCHANGED <<procVars, pairVars>>

\* `socket::socket_inodes(pid)?.collect::<Result<HashSet<_>>>()?`
find_read_fds ==
  /\ pc = "discover" /\ fpc = "fds"
  /\ \/ FindReturns("io", 0)
     \/ /\ inodes' = socket_inodes
        /\ closedSinceFds' = FALSE
        /\ fpc' = "scan"
        /\ UNCHANGED <<pc, bodyResult, ferr, port, start, found, wake, slept, held>>
  /\ UNCHANGED <<prog, opts, child, kills, dataDir, calls, result, socks, clock>>
  /\ UNCHANGED <<procVars, pairVars>>

\* `tcp::parse(pid)?.find(...)`: open the table and read it up to the first
\* item the closure accepts.
find_scan ==
  /\ pc = "discover" /\ fpc = "scan"
  /\ \/ FindReturns("io", 0)
     \/ /\ \E t \in Tables : found' = find(t, inodes)
        /\ fpc' = "match"
        /\ UNCHANGED <<pc, bodyResult, ferr, port, start, inodes, wake, slept,
                       held, closedSinceFds>>
  /\ UNCHANGED <<prog, opts, child, kills, dataDir, calls, result, socks, clock>>
  /\ UNCHANGED <<procVars, pairVars>>

\* What `match result` does with the item of kind `kind`, `late` telling
\* whether the timeout has elapsed: "sleep" and go round again, or return (the
\* port for "none", an error otherwise).
Outcome_deadline_first(kind, late) ==
  IF late THEN "timeout"
  ELSE IF kind = "none" THEN "sleep"
  ELSE IF kind = "err" THEN "parse" ELSE "none"

Outcome(kind, late) ==
  IF kind = "none" THEN (IF late THEN "timeout" ELSE "sleep")
  ELSE IF kind = "err" THEN "parse" ELSE "none"

\* The `match result` after the scan.
find_match ==
  /\ pc = "discover" /\ fpc = "match"
  /\ \E o \in {Outcome(found.kind, TimedOut(start, clock))} :
       IF o = "sleep"
       THEN /\ fpc' = "sleep"
            /\ wake' = clock + SleepMs
            /\ slept' = TRUE
            /\ inodes' = {} /\ closedSinceFds' = FALSE
            /\ UNCHANGED <<pc, bodyResult, ferr, port, start, found, held>>
       ELSE FindReturns(o, IF o = "none" THEN found.port ELSE 0)
  /\ UNCHANGED <<prog, opts, child, kills, dataDir, calls, result, socks, clock>>
  /\ UNCHANGED <<procVars, pairVars>>

\* `sleep(Duration::from_millis(1)).await` is over: next attempt.
find_wake ==
  /\ pc = "discover" /\ fpc = "sleep"
  /\ clock >= wake
  /\ fpc' = "fds"
  /\ UNCHANGED <<prog, opts, pc, child, kills, dataDir, calls, bodyResult, result,
                 socks, clock, start, inodes, found, port, ferr, wake, slept,
                 held, closedSinceFds>>
  /\ UNCHANGED <<procVars, pairVars>>

----
\* The environment while the driver process starts up.

Discovering == prog = "lib" /\ pc = "discover"

\* Some process gets a socket (it binds one or accepts a connection; accepted
\* sockets share the local port of their listener).  Live sockets have
\* distinct inodes.
EnvOpen(s) ==
  /\ Discovering
  /\ Cardinality(socks) < MaxSocks
  /\ \A x \in socks : x.inode # s.inode
  /\ socks' = socks \cup {s}
  /\ UNCHANGED <<runVars, findVars, clock, held, closedSinceFds>>
  /\ UNCHANGED <<procVars, pairVars>>

\* Some process closes a socket; its inode number and port become free again.
EnvClose(s) ==
  /\ Discovering
  /\ s \in socks
  /\ socks' = socks \ {s}
  /\ held' = held \ {s}
  /\ closedSinceFds' = (fpc \in {"scan", "match"})
  /\ UNCHANGED <<runVars, findVars, clock>>
  /\ UNCHANGED <<procVars, pairVars>>

\* Time passes: by the 1 ms of a pending sleep (at most MaxPromptWakes times
\* between two long delays), or by a long delay (at most once before the
\* discovery is called).
Tick(d) ==
  /\ Discovering
  /\ clock + d <= MaxClock
  /\ d = SleepMs =>
       fpc = "sleep" /\ clock < wake /\ clock % BigTick < MaxPromptWakes * SleepMs
  /\ (d = BigTick /\ fpc = "idle") => clock = 0
  /\ clock' = clock + d
  /\ UNCHANGED <<runVars, findVars, socks, held, closedSinceFds>>
  /\ UNCHANGED <<procVars, pairVars>>

----
\* Options.  An Option<T> is the empty sequence (None) or a one element
\* sequence (Some).

None == <<>>
Some(x) == <<x>>
unwrap_or(o, d) == IF o = None THEN d ELSE o[1]

OptSelector == {None, Some("#sel")}

\* A usize is four 16 bit limbs and a u32 two, most significant first.
Usize(n) == <<0, 0, 0, n>>
U32(n) == <<0, n>>

\* `w as _` where a u32 is expected: the low 32 bits of the usize.
as_u32(v) == SubSeq(v, 3, 4)

\* 800x600, and 4294968096x600 whose width is 2^32 + 800.
OptWindowSize ==
  {None, Some(<<Usize(800), Usize(600)>>), Some(<<<<0, 1, 0, 800>>, Usize(600)>>)}

\* lib.rs ScreenshotOpts has await_selector and selector only; the other two
\* fields exist in client.rs ScreenshotOpts.  `command` is the cli's Command.
\* `ScreenshotOpts::default()`
DefaultOpts ==
  [command |-> "screenshot", window_size |-> None, await_selector |-> None,
   remove_selector |-> None, selector |-> None]

LibOpts ==
  [command : {"screenshot"}, window_size : {None}, await_selector : OptSelector,
   remove_selector : {None}, selector : OptSelector]

CliOpts ==
  [command : {"screenshot"}, window_size : OptWindowSize, await_selector : OptSelector,
   remove_selector : OptSelector, selector : OptSelector]
    \cup [command : {"launch"}, window_size : {None}, await_selector : {None},
          remove_selector : {None}, selector : {None}]

----
\* The session operations.

\* The operations of the closure in lib.rs `screenshot`, in program order.
screenshot_steps_await_always(o) ==
  <<"set_window_size", "goto", "wait">>
    \o (IF o.selector # None THEN <<"find", "element_screenshot">> ELSE <<"screenshot">>)
    \o <<"close">>

screenshot_steps(o) ==
  <<"set_window_size", "goto">>
    \o (IF o.await_selector # None THEN <<"wait">> ELSE <<>>)
    \o (IF o.selector # None THEN <<"find", "element_screenshot">> ELSE <<"screenshot">>)
    \o <<"close">>

\* The operations of Client::screenshot, in program order.
Client_screenshot_steps_by_await(o) ==
  <<"set_window_size", "goto">>
    \o (IF o.await_selector # None THEN <<"wait">> ELSE <<>>)
    \o (IF o.remove_selector # None THEN <<"execute">> ELSE <<>>)
    \o (IF o.await_selector # None THEN <<"find", "element_screenshot">>
        ELSE <<"screenshot">>)

Client_screenshot_steps(o) ==
  <<"set_window_size", "goto">>
    \o (IF o.await_selector # None THEN <<"wait">> ELSE <<>>)
    \o (IF o.remove_selector # None THEN <<"execute">> ELSE <<>>)
    \o (IF o.selector # None THEN <<"find", "element_screenshot">> ELSE <<"screenshot">>)

\* The step after p in steps, "end" after the last one.
NextOp_again(steps, p) == p
NextOp(steps, p) ==
  LET i == CHOOSE k \in 1..Len(steps) : steps[k] = p
  IN  IF i = Len(steps) THEN "end" ELSE steps[i + 1]

\* `format!("http://127.0.0.1:{port}")`
webdriver_url(p) == <<LOCALHOST, p>>

\* The argument an operation is invoked with.
OpArg(op, o) ==
  CASE op = "set_window_size" ->
         LET wh == unwrap_or(o.window_size, <<Usize(DefaultWidth), Usize(DefaultHeight)>>)
         IN  <<as_u32(wh[1]), as_u32(wh[2])>>
    [] op = "wait" -> o.await_selector
    [] op = "execute" -> o.remove_selector
    [] op \in {"find", "element_screenshot"} -> o.selector
    [] OTHER -> <<>>

Call(op, arg, ok) == [op |-> op, arg |-> arg, ok |-> ok]

\* The `?` after a session operation: the sequence goes on only after Ok.
Proceeds_always(ok) == TRUE
Proceeds(ok) == ok

\* What dropping a TempDir leaves: removal errors are ignored by the drop.
DropDir_kept == {"exists"}
DropDir_outlives_body == {"exists"}
DropDir == {"removed", "leaked"}

----
\* The one-shot run of lib.rs.

\* with_fantoccini up to the call of with_child: spawn the driver and take
\* its pid.  A Child that is dropped is not killed (kill_on_drop is not set).
with_fantoccini_spawn ==
  /\ prog = "lib" /\ pc = "start"
  /\ \/ /\ result' = "launch"
        /\ pc' = "done"
        /\ UNCHANGED child
     \/ /\ child' = "dropped"
        /\ result' = "nopid"
        /\ pc' = "done"
     \/ /\ child' = "running"
        /\ pc' = "discover"
        /\ UNCHANGED result
  /\ UNCHANGED <<prog, opts, kills, dataDir, calls, bodyResult,
                 findVars, envVars>>
  /\ UNCHANGED <<procVars, pairVars>>

\* The closure of with_fantoccini after the discovery: create the profile
\* directory, connect the session and call `f(client)`.  with_fantoccini is
\* generic in f: the closure of `screenshot`, with the options it captured,
\* enters here.
with_fantoccini_connect ==
  /\ prog = "lib" /\ pc = "connect"
  /\ \/ /\ bodyResult' = "tempdir"
        /\ pc' = "kill"
        /\ UNCHANGED <<dataDir, calls, opts>>
     \/ /\ calls' = Append(calls, Call("connect", webdriver_url(port), FALSE))
        /\ dataDir' \in DropDir
        /\ bodyResult' = "connect"
        /\ pc' = "kill"
        /\ UNCHANGED opts
     \/ /\ calls' = Append(calls, Call("connect", webdriver_url(port), TRUE))
        /\ dataDir' = "exists"
        /\ opts' \in LibOpts
        /\ pc' = screenshot_steps(opts')[1]
        /\ UNCHANGED bodyResult
  /\ FindLocalsGone
  /\ UNCHANGED <<prog, child, kills, result, fpc, port, ferr>>
  /\ UNCHANGED <<procVars, pairVars>>

\* One operation of the closure of lib.rs `screenshot`; an error leaves the
\* closure at once, and the profile directory is dropped with it.
screenshot_op ==
  /\ prog = "lib" /\ pc \in {"set_window_size", "goto", "wait", "find",
                              "element_screenshot", "screenshot", "close"}
  /\ \E ok \in BOOLEAN :
       /\ calls' = Append(calls, Call(pc, OpArg(pc, opts), ok))
       /\ IF Proceeds(ok) /\ NextOp(screenshot_steps(opts), pc) # "end"
          THEN /\ pc' = NextOp(screenshot_steps(opts), pc)
               /\ UNCHANGED <<bodyResult, dataDir>>
          ELSE /\ bodyResult' = IF ok THEN "ok" ELSE pc
               /\ dataDir' \in DropDir
               /\ pc' = "kill"
  /\ UNCHANGED <<prog, opts, child, kills, result, findVars, envVars>>
  /\ UNCHANGED <<procVars, pairVars>>

\* What with_child returns after `child.kill().await`.
with_child_returns(body, killed) == IF killed THEN body ELSE "kill"

\* with_child after `f().await`: kill the driver, then hand out the result.
with_child_kill ==
  /\ prog = "lib" /\ pc = "kill"
  /\ kills' = kills + 1
  /\ \E killed \in BOOLEAN :
       /\ child' = IF killed THEN "killed" ELSE "dropped"
       /\ result' = with_child_returns(bodyResult, killed)
  /\ pc' = "done"
  /\ FindLocalsGone
  /\ UNCHANGED <<prog, opts, dataDir, calls, bodyResult, fpc, port, ferr>>
  /\ UNCHANGED <<procVars, pairVars>>

----
\* The run of the cli on a Client.

\* Chromedriver::launch of the chromedriver_launch crate: it fails, or it
\* yields a running driver and the loopback port the driver listens on.
Chromedriver_launch == {[ok |-> FALSE, port |-> 0]} \cup [ok : {TRUE}, port : Ports]

\* Builder::build as called by `run`: launch the driver, create the profile
\* directory, connect.  On an error the values built so far are dropped; the
\* drop of a Chromedriver shuts the process down.
Builder_build ==
  /\ prog = "cli" /\ pc = "start"
  /\ \E l \in Chromedriver_launch :
       IF ~l.ok
       THEN /\ result' = "launch"
            /\ pc' = "done"
            /\ UNCHANGED <<child, kills, dataDir, calls, port>>
       ELSE /\ port' = l.port
            /\ \/ /\ result' = "tempdir"
                  /\ child' = "killed" /\ kills' = kills + 1
                  /\ pc' = "done"
                  /\ UNCHANGED <<dataDir, calls>>
               \/ /\ calls' = Append(calls, Call("connect", webdriver_url(l.port), FALSE))
                  /\ result' = "connect"
                  /\ child' = "killed" /\ kills' = kills + 1
                  /\ dataDir' \in DropDir
                  /\ pc' = "done"
               \/ /\ calls' = Append(calls, Call("connect", webdriver_url(l.port), TRUE))
                  /\ child' = "running"
                  /\ dataDir' = "exists"
                  /\ pc' = IF opts.command = "launch" THEN "launch"
                           ELSE Client_screenshot_steps(opts)[1]
                  /\ UNCHANGED <<kills, result>>
  /\ UNCHANGED <<prog, opts, bodyResult, fpc, start, inodes, found, ferr, wake,
                 slept, envVars>>
  /\ UNCHANGED <<procVars, pairVars>>

\* One operation of Client::screenshot; an error returns at once.
Client_screenshot_op ==
  /\ prog = "cli" /\ pc \in {"set_window_size", "goto", "wait", "execute", "find",
                              "element_screenshot", "screenshot"}
  /\ \E ok \in BOOLEAN :
       /\ calls' = Append(calls, Call(pc, OpArg(pc, opts), ok))
       /\ IF Proceeds(ok)
          THEN /\ pc' = IF NextOp(Client_screenshot_steps(opts), pc) = "end"
                        THEN "write"
                        ELSE NextOp(Client_screenshot_steps(opts), pc)
               /\ UNCHANGED bodyResult
          ELSE /\ bodyResult' = pc
               /\ pc' = "destroy"
  /\ UNCHANGED <<prog, opts, child, kills, dataDir, result, findVars, envVars>>
  /\ UNCHANGED <<procVars, pairVars>>

\* The cli's `screenshot` handler after the capture: write the image.
cli_screenshot_write ==
  /\ prog = "cli" /\ pc = "write"
  /\ bodyResult' \in {"ok", "write"}
  /\ pc' = "destroy"
  /\ UNCHANGED <<prog, opts, child, kills, dataDir, calls, result, findVars, envVars>>
  /\ UNCHANGED <<procVars, pairVars>>

\* The cli's `launch` handler: wait for a line on stdin.
cli_launch ==
  /\ prog = "cli" /\ pc = "launch"
  /\ bodyResult' \in {"ok", "stdin"}
  /\ pc' = "destroy"
  /\ UNCHANGED <<prog, opts, child, kills, dataDir, calls, result, findVars, envVars>>
  /\ UNCHANGED <<procVars, pairVars>>

\* What `run` returns after `client.destroy().await`.
run_returns(body, destroyed) == IF destroyed THEN body ELSE "destroy"

\* `run` after the command: Client::destroy closes the session, shuts the
\* driver down and removes the profile directory; the first failure returns
\* and drops what is left of the Client.

\* Where destroy goes after the close: on to the driver, or out with the error.
AfterClose_goes_on(ok) == "destroy_chromedriver"
AfterClose(ok) == IF ok THEN "destroy_chromedriver" ELSE "done"

\* `self.webdriver.close().await?`
Client_destroy_close ==
  /\ prog = "cli" /\ pc = "destroy"
  /\ \E ok \in BOOLEAN :
       /\ calls' = Append(calls, Call("close", <<>>, ok))
       /\ IF AfterClose(ok) # "done"
          THEN /\ pc' = AfterClose(ok)
               /\ UNCHANGED <<child, kills, dataDir, result>>
          ELSE /\ kills' = kills + 1
               /\ child' = "killed"
               /\ dataDir' \in DropDir
               /\ result' = run_returns(bodyResult, FALSE)
               /\ pc' = "done"
  /\ UNCHANGED <<prog, opts, bodyResult, findVars, envVars>>
  /\ UNCHANGED <<procVars, pairVars>>

\* `self.chromedriver.destroy()?`
Client_destroy_chromedriver ==
  /\ prog = "cli" /\ pc = "destroy_chromedriver"
  /\ kills' = kills + 1
  /\ \/ /\ child' = "killed"
        /\ pc' = "destroy_data_dir"
        /\ UNCHANGED <<dataDir, result>>
     \/ /\ child' = "dropped"
        /\ dataDir' \in DropDir
        /\ result' = run_returns(bodyResult, FALSE)
        /\ pc' = "done"
  /\ UNCHANGED <<prog, opts, calls, bodyResult, findVars, envVars>>
  /\ UNCHANGED <<procVars, pairVars>>

\* `self.data_dir.close()?`
Client_destroy_data_dir ==
  /\ prog = "cli" /\ pc = "destroy_data_dir"
  /\ \E removed \in BOOLEAN :
       /\ dataDir' = IF removed THEN "removed" ELSE "leaked"
       /\ result' = run_returns(bodyResult, removed)
  /\ pc' = "done"
  /\ UNCHANGED <<prog, opts, child, kills, calls, bodyResult, findVars, envVars>>
  /\ UNCHANGED <<procVars, pairVars>>

Client_destroy ==
  \/ Client_destroy_close
  \/ Client_destroy_chromedriver
  \/ Client_destroy_data_dir

----
\* tcp.rs: the text of /proc/<pid>/net/tcp.  A character is a one character
\* string, a token a sequence of characters, and a line the sequence of its
\* whitespace separated tokens (a blank line has none).

\* The digits of char::to_digit: value + 1 is the position.
DigitsUpper == <<"0", "1", "2", "3", "4", "5", "6", "7", "8", "9",
                 "A", "B", "C", "D", "E", "F">>
DigitsLower == <<"0", "1", "2", "3", "4", "5", "6", "7", "8", "9",
                 "a", "b", "c", "d", "e", "f">>

\* char::to_digit(radix): the value of the digit, -1 for None.
to_digit(c, radix) ==
  LET D == {i \in 1..radix : DigitsUpper[i] = c \/ DigitsLower[i] = c}
  IN  IF D = {} THEN -1 ELSE (CHOOSE i \in D : TRUE) - 1

\* An unsigned integer of n bytes is the sequence of its bytes, most
\* significant first.
Zero(n) == [i \in 1..n |-> 0]

\* v * m + c: the carry out of the top byte, followed by the bytes of the
\* result.  A carry that is not 0 is the overflow of checked_mul/checked_add.
RECURSIVE mul_add(_, _, _)
mul_add(v, m, c) ==
  IF v = <<>> THEN <<c>>
  ELSE LET x == v[Len(v)] * m + c
       IN  mul_add(SubSeq(v, 1, Len(v) - 1), m, x \div 256) \o <<x % 256>>

ParseErr == [ok |-> FALSE, val |-> <<>>]

\* The digit loop of from_str_radix.
RECURSIVE accumulate(_, _, _)
accumulate(digits, radix, v) ==
  IF digits = <<>> THEN [ok |-> TRUE, val |-> v]
  ELSE IF to_digit(Head(digits), radix) = -1 THEN ParseErr
  ELSE LET r == mul_add(v, radix, to_digit(Head(digits), radix))
       IN  IF r[1] # 0 THEN ParseErr ELSE accumulate(Tail(digits), radix, Tail(r))

\* uN::from_str_radix(src, radix) for an unsigned type of n bytes: an empty
\* string fails, one leading "+" is accepted, then digits only.
from_str_radix(src, radix, n) ==
  IF src = <<>> THEN ParseErr
  ELSE IF Len(src) > 1 /\ Head(src) = "+" THEN accumulate(Tail(src), radix, Zero(n))
  ELSE accumulate(src, radix, Zero(n))

\* str::split_once(':'): the position of the first colon, 0 for None.
ColonAt(t) ==
  LET C == {i \in 1..Len(t) : t[i] = ":"}
  IN  IF C = {} THEN 0 ELSE CHOOSE i \in C : \A j \in C : i <= j

\* u32::to_be on the little endian targets the driver exists for: the bytes
\* swapped.
to_be_big_endian(v) == v
to_be(v) == [i \in 1..Len(v) |-> v[Len(v) + 1 - i]]

\* Ipv4Addr::from(u32): the octets are the bytes, most significant first.
Ipv4Addr_from(v) == v

\* The value of a u16 as a number.
U16(v) == v[1] * 256 + v[2]

TcpEntry(a, p, i) == [kind |-> "ok", addr |-> a, port |-> p, inode |-> i]
TcpErr(why) == [kind |-> "err", why |-> why]

parse_tcp_line(line) ==
  IF Len(line) < 2 THEN TcpErr("local address")
  ELSE
    LET local_addr_str == line[2]
        c == ColonAt(local_addr_str)
        addr_ == from_str_radix(SubSeq(local_addr_str, 1, c - 1), 16, 4)
        port_ == from_str_radix(SubSeq(local_addr_str, c + 1, Len(local_addr_str)), 16, 2)
        inode_ == from_str_radix(line[10], 10, 8)
    IN  IF c = 0 THEN TcpErr("malformed local address")
        ELSE IF ~addr_.ok THEN TcpErr("malformed address")
        ELSE IF ~port_.ok THEN TcpErr("malformed port")
        ELSE IF Len(line) < 10 THEN TcpErr("inode")
        ELSE IF ~inode_.ok THEN TcpErr("malformed inode")
        ELSE TcpEntry(Ipv4Addr_from(to_be(addr_.val)), U16(port_.val), inode_.val)

\* The tokens of the sample lines.  The first three pairs of local address
\* and inode are those of the test tcp_line_parsing; the fourth holds the
\* largest values the fields can take.
Sl == <<"0", ":">>
Filler == <<"0">>
LocalLoopback == <<"0", "1", "0", "0", "0", "0", "7", "F", ":", "B", "1", "A", "B">>
LocalAny == <<"0", "0", "0", "0", "0", "0", "0", "0", ":", "D", "4", "3", "1">>
LocalLan == <<"0", "C", "0", "0", "A", "8", "C", "0", ":", "D", "2", "9", "C">>
LocalMax == <<"F", "F", "F", "F", "F", "F", "F", "F", ":", "F", "F", "F", "F">>
LocalNoColon == <<"0", "1", "0", "0", "0", "0", "7", "F", "B", "1", "A", "B">>
LocalBadAddr == <<"0", "1", "0", "0", "0", "0", "7", "G", ":", "B", "1", "A", "B">>
LocalLongAddr == <<"1", "0", "1", "0", "0", "0", "0", "7", "F", ":", "B", "1", "A",
    "B">>
LocalLongPort == <<"0", "1", "0", "0", "0", "0", "7", "F", ":", "1", "B", "1", "A",
    "B">>
LocalNoPort == <<"0", "1", "0", "0", "0", "0", "7", "F", ":">>
InodeLoopback == <<"1", "1", "0", "9", "1", "4", "7">>
InodeAny == <<"5", "8", "8", "3">>
InodeLan == <<"8", "5", "2", "6", "0", "3">>
InodeMax == <<"1", "8", "4", "4", "6", "7", "4", "4", "0", "7", "3", "7", "0", "9",
    "5", "5", "1", "6", "1", "5">>
InodeTooBig == <<"1", "8", "4", "4", "6", "7", "4", "4", "0", "7", "3", "7", "0", "9",
    "5", "5", "1", "6", "1", "6">>
InodeBadDigit == <<"5", "8", "x", "3">>

\* A data line of n tokens: the slot, the local address, seven tokens that
\* parse_tcp_line never looks at, the inode, and one token more.
Line(local, inode, n) ==
  SubSeq(<<Sl, local, Filler, Filler, Filler, Filler, Filler, Filler, Filler,
           inode, Filler>>, 1, n)

Blank == <<>>
Header == <<<<"s", "l">>, <<"l", "o", "c", "a", "l", "_", "a", "d", "d", "r", "e", "s", "s">>,
            <<"r", "e", "m", "_", "a", "d", "d", "r", "e", "s", "s">>>>

WellFormedSamples ==
  {Line(LocalLoopback, InodeLoopback, 11), Line(LocalAny, InodeAny, 11),
   Line(LocalLan, InodeLan, 10), Line(LocalMax, InodeMax, 11)}

MalformedSamples ==
  {Line(LocalNoColon, InodeLoopback, 11), Line(LocalBadAddr, InodeLoopback, 11),
   Line(LocalLongAddr, InodeLoopback, 11), Line(LocalLongPort, InodeLoopback, 11),
   Line(LocalNoPort, InodeLoopback, 11), Line(LocalLoopback, InodeTooBig, 11),
   Line(LocalLoopback, InodeBadDigit, 11), Line(LocalLoopback, InodeLoopback, 9),
   Line(LocalLoopback, InodeLoopback, 1)}

LineSamples == WellFormedSamples \cup MalformedSamples \cup {Blank, Header}

\* parse_tcp_line on the sample lines, computed once.
parse_tcp_line_of == [l \in LineSamples |-> parse_tcp_line(l)]

\* The lines the longer files are made of.
FileSamples ==
  {Blank, Header, Line(LocalLoopback, InodeLoopback, 11), Line(LocalLan, InodeLan, 10),
   Line(LocalNoColon, InodeLoopback, 11), Line(LocalLoopback, InodeLoopback, 9),
   Line(LocalLoopback, InodeTooBig, 11)}

\* The files: up to MaxLines lines of FileSamples, or the header and one of
\* the sample lines.
Files ==
  UNION {[1..n -> FileSamples] : n \in 0..MaxLines}
    \cup {<<Header, l>> : l \in LineSamples}

\* TcpEntryIter::next returned None.
TcpEnd == [kind |-> "none"]

\* An iterator that has returned None is not called again.
Ended(items, end) == items # <<>> /\ items[Len(items)] = end

\* Whether a line that was read is the item to return: it is not blank, and
\* the header has been skipped already.
Yields_well_formed_only(line_str, skipped) ==
  line_str # <<>> /\ skipped /\ parse_tcp_line_of[line_str].kind = "ok"
Yields(line_str, skipped) == line_str # <<>> /\ skipped

\* skipped_header after a line that was not returned: set by the first line
\* that is not blank.
SkipsHeader_blank(line_str, skipped) == TRUE
SkipsHeader(line_str, skipped) == skipped \/ line_str # <<>>

\* The loop of TcpEntryIter::next from position p: `reads` is the number of
\* reads that succeed before one fails.
RECURSIVE next(_, _, _)
next(p, skipped, reads) ==
  IF reads = 0 THEN [item |-> TcpErr("read"), pos |-> p, skipped |-> skipped]
  ELSE IF p = Len(tcpFile) THEN [item |-> TcpEnd, pos |-> p, skipped |-> skipped]
  ELSE IF Yields(tcpFile[p + 1], skipped)
       THEN [item |-> parse_tcp_line_of[tcpFile[p + 1]], pos |-> p + 1,
             skipped |-> skipped]
       ELSE next(p + 1, SkipsHeader(tcpFile[p + 1], skipped), reads - 1)

\* None of the variables of a run changes while a reader runs on its own.
RunIdle ==
  /\ prog = "none" /\ opts = DefaultOpts /\ pc = "done"
  /\ child = "none" /\ kills = 0 /\ dataDir = "none" /\ calls = <<>>
  /\ bodyResult = "none" /\ result = "none"
  /\ socks = {} /\ clock = 0
  /\ fpc = "idle" /\ start = 0 /\ inodes = {} /\ found = NoItem /\ port = 0
  /\ ferr = "none" /\ wake = 0 /\ slept = FALSE
  /\ held = {} /\ closedSinceFds = FALSE

\* One call of TcpEntryIter::next.
TcpEntryIter_next ==
  /\ unit = "tcp"
  /\ ~Ended(tcpItems, TcpEnd)
  /\ \E reads \in 0..(Len(tcpFile) - tcpPos + 1) :
       \E r \in {next(tcpPos, skipped_header, reads)} :
           /\ r.item = TcpErr("read") => readErrs < MaxReadErrs
           /\ readErrs' = IF r.item = TcpErr("read") THEN readErrs + 1 ELSE readErrs
           /\ tcpItems' = Append(tcpItems, r.item)
           /\ tcpPos' = r.pos
           /\ skipped_header' = r.skipped
  /\ UNCHANGED <<unit, tcpFile, fdDir, fdPos, fdItems, fdRes>>
  /\ UNCHANGED <<runVars, findVars, envVars, pairVars, winArg, winRes>>

----
\* socket.rs: the entries of /proc/<pid>/fd.

\* A directory entry: a socket or another file with its inode, an entry whose
\* stat fails, or an entry that read_dir fails to read.
FdSamples ==
  [kind : {"sock", "file"}, inode : Inodes]
    \cup {[kind |-> "nostat", inode |-> 0], [kind |-> "unreadable", inode |-> 0]}

\* The directories of up to MaxFds entries.
Dirs == UNION {[1..n -> FdSamples] : n \in 0..MaxFds}

FdOk(i) == [kind |-> "ok", inode |-> i]
FdErr == [kind |-> "err", inode |-> 0]
FdEnd == [kind |-> "none", inode |-> 0]

\* check_socket: the inode of the file if stat succeeds and the file is a
\* socket, an error otherwise.
check_socket_stat_ignored(e) ==
  IF is_socket(e) \/ e.kind = "nostat" THEN FdOk(e.inode) ELSE FdErr
check_socket(e) ==
  IF e.kind = "nostat" THEN FdErr
  ELSE IF is_socket(e) THEN FdOk(e.inode) ELSE FdErr

\* The filter_map of socket_inodes from position p on: an entry that failed
\* to be read yields its error, an entry check_socket accepts yields its
\* inode, any other entry yields nothing.
RECURSIVE filter_map_next(_)
filter_map_next(p) ==
  IF p = Len(fdDir) THEN [item |-> FdEnd, pos |-> p]
  ELSE IF fdDir[p + 1].kind = "unreadable" THEN [item |-> FdErr, pos |-> p + 1]
  ELSE IF check_socket(fdDir[p + 1]).kind = "ok"
       THEN [item |-> check_socket(fdDir[p + 1]), pos |-> p + 1]
       ELSE filter_map_next(p + 1)

\* `socket_inodes(pid)`: read_dir fails, or the iterator is returned.
socket_inodes_call ==
  /\ unit = "fd" /\ fdRes = "none"
  /\ fdRes' \in {"ok", "err"}
  /\ UNCHANGED <<unit, tcpFile, tcpPos, skipped_header, tcpItems, readErrs,
                 fdDir, fdPos, fdItems>>
  /\ UNCHANGED <<runVars, findVars, envVars, pairVars, winArg, winRes>>

\* One call of `next` on the iterator socket_inodes returned.
socket_inodes_next ==
  /\ unit = "fd" /\ fdRes = "ok"
  /\ ~Ended(fdItems, FdEnd)
  /\ fdItems' = Append(fdItems, filter_map_next(fdPos).item)
  /\ fdPos' = filter_map_next(fdPos).pos
  /\ UNCHANGED <<unit, tcpFile, tcpPos, skipped_header, tcpItems, readErrs,
                 fdDir, fdRes>>
  /\ UNCHANGED <<runVars, findVars, envVars, pairVars, winArg, winRes>>

----
\* cli/src/args.rs: the --window-size argument.  A string is the sequence of
\* its characters; a usize is its eight bytes, most significant first.

\* `s.split(&['x', ',', ' '])`: the pieces between the separators, empty ones
\* included; `cur` is the piece being collected.
RECURSIVE split(_, _)
split(s, cur) ==
  IF s = <<>> THEN <<cur>>
  ELSE IF Head(s) \in {"x", ",", " "} THEN <<cur>> \o split(Tail(s), <<>>)
  ELSE split(Tail(s), Append(cur, Head(s)))

\* `ensure!(it.next().is_none(), ...)` on the pieces.
TooMany_ignored(it) == FALSE
TooMany(it) == Len(it) > 2

WinErr(why) == [ok |-> FALSE, why |-> why]
WinOk(w, h) == [ok |-> TRUE, w |-> w, h |-> h]
NotParsed == [ok |-> FALSE, why |-> "not called"]

parse_window_size(s) ==
  LET it == split(s, <<>>)
  IN  IF Len(it) < 2 THEN WinErr("height coordinate")
      ELSE IF TooMany(it) THEN WinErr("trailing input")
      ELSE LET w == from_str_radix(it[1], 10, 8)
               h == from_str_radix(it[2], 10, 8)
           IN  IF ~w.ok THEN WinErr("width number")
               ELSE IF ~h.ok THEN WinErr("height number")
               ELSE WinOk(w.val, h.val)

\* The arguments: every string of up to MaxArgLen of these characters, the
\* strings of tests::window_size_parsing, and strings with the largest usize,
\* the number after it and a number past 32 bits.
WinChars == {"0", "1", "9", "x", ",", " ", "a", "+"}
WinSamples ==
  {<<"1", ",", "2">>, <<"3", "0", "0", "0", "x", "2", "0", "0", "0">>,
   <<"3", "8", "4", "0", " ", "2", "1", "6", "0">>,
   InodeMax \o <<"x", "1">>, <<"1", ",">> \o InodeMax, InodeTooBig \o <<"x", "1">>,
   <<"1", "x">> \o InodeTooBig,
   <<"4", "2", "9", "4", "9", "6", "8", "0", "9", "6", "x", "6", "0", "0">>,
   <<"1", "x", "2", "x", "3">>, <<"1", "x", "2", " ">>}
WinArgs == UNION {[1..n -> WinChars] : n \in 0..MaxArgLen} \cup WinSamples

\* clap calls the value parser on the argument.
parse_window_size_call ==
  /\ unit = "win"
  /\ winRes = NotParsed
  /\ winRes' = parse_window_size(winArg)
  /\ UNCHANGED <<unit, tcpFile, tcpPos, skipped_header, tcpItems, readErrs,
                 fdDir, fdPos, fdItems, fdRes, winArg>>
  /\ UNCHANGED <<runVars, findVars, envVars, pairVars>>

----
\* No reader of the proc file system runs on its own.
ProcIdle ==
  /\ unit = "none"
  /\ tcpFile = <<>> /\ tcpPos = 0 /\ skipped_header = FALSE /\ tcpItems = <<>>
  /\ readErrs = 0
  /\ fdDir = <<>> /\ fdPos = 0 /\ fdItems = <<>> /\ fdRes = "none"
  /\ winArg = <<>> /\ winRes = NotParsed

\* No pair of concurrent runs is under way.
PairIdle ==
  /\ runs = <<>> /\ procs = <<>> /\ dirs = {} /\ psocks = {}

Init ==
  /\ prog \in {"lib", "cli"}
  /\ opts \in IF prog = "lib" THEN {DefaultOpts} ELSE CliOpts
  /\ pc = "start"
  /\ child = "none"
  /\ kills = 0
  /\ dataDir = "none"
  /\ calls = <<>>
  /\ bodyResult = "none"
  /\ result = "none"
  /\ socks = {}
  /\ clock = 0
  /\ fpc = "idle"
  /\ start = 0
  /\ inodes = {}
  /\ found = NoItem
  /\ port = 0
  /\ ferr = "none"
  /\ wake = 0
  /\ slept = FALSE
  /\ held = {}
  /\ closedSinceFds = FALSE
  /\ ProcIdle
  /\ PairIdle

Next ==
  \/ with_fantoccini_spawn
  \/ find_start
  \/ find_read_fds
  \/ find_scan
  \/ find_match
  \/ find_wake
  \/ \E s \in Socket : EnvOpen(s)
  \/ \E s \in Socket : EnvClose(s)
  \/ \E d \in {SleepMs, BigTick} : Tick(d)
  \/ with_fantoccini_connect
  \/ screenshot_op
  \/ with_child_kill
  \/ Builder_build
  \/ Client_screenshot_op
  \/ cli_screenshot_write
  \/ cli_launch
  \/ Client_destroy

Spec == Init /\ [][Next]_vars

\* The caller of lib.rs `screenshot` drops the future while it is suspended
\* at an await inside `f().await` of with_child: in the sleep of the
\* discovery, in the connect, or in a session operation.  Everything the
\* future owns is dropped: the Child (which kill_on_drop, not set, would
\* kill), the session, the profile directory.
cancel ==
  /\ prog = "lib" /\ child = "running"
  /\ \/ pc = "discover" /\ fpc = "sleep"
     \/ pc \in {"connect", "set_window_size", "goto", "wait", "find",
                "element_screenshot", "screenshot", "close"}
  /\ child' = "dropped"
  /\ dataDir' \in IF pc = "discover" THEN {"none"} ELSE DropDir
  /\ result' = "cancelled"
  /\ pc' = "done"
  /\ fpc' = "idle"
  /\ FindLocalsGone
  /\ UNCHANGED <<prog, opts, kills, calls, bodyResult, port, ferr>>
  /\ UNCHANGED <<procVars, pairVars>>

NextCancel == Next \/ cancel

SpecCancel == Init /\ [][NextCancel]_vars

----
\* The readers of the proc file system on their own, parse_file on a file and
\* socket_inodes on a directory, and the parser of the window size on an
\* argument.
InitProc ==
  /\ RunIdle
  /\ unit \in {"tcp", "fd", "win"}
  /\ tcpFile \in IF unit = "tcp" THEN Files ELSE {<<>>}
  /\ fdDir \in IF unit = "fd" THEN Dirs ELSE {<<>>}
  /\ tcpPos = 0 /\ skipped_header = FALSE /\ tcpItems = <<>> /\ readErrs = 0
  /\ fdPos = 0 /\ fdItems = <<>> /\ fdRes = "none"
  /\ winArg \in IF unit = "win" THEN WinArgs ELSE {<<>>}
  /\ winRes = NotParsed
  /\ PairIdle

NextProc ==
  \/ TcpEntryIter_next
  \/ socket_inodes_call
  \/ socket_inodes_next
  \/ parse_window_size_call

SpecProc == InitProc /\ [][NextProc]_vars

----
\* Two one-shot runs of lib.rs side by side.  Each run holds the handle of the
\* process it spawned (its pid), the inode set of its current attempt, the
\* port it found and the TempDir it created; the process table, the socket
\* table and the temporary directory belong to the machine.

Runs == {1, 2}
Pids == 1..MaxPids
Names == 1..MaxNames

\* `from` tells whose socket the selected entry was, the run's "own" driver's
\* or an "other" process's; `stale` tells that a socket was closed after the
\* descriptors were enumerated and before the table was scanned.
NewRun ==
  [pc |-> "start", pid |-> 0, dir |-> 0, inodes |-> {}, port |-> 0, from |-> "none",
   stale |-> FALSE]

\* A run inside find_localhost_port.
PairDiscovering == \E r \in Runs : runs[r].pc \in {"fds", "scan"}

PSocket == [pid : Pids, inode : Inodes, port : Ports]

\* Command::spawn: the child gets a pid no process has.
pair_spawn(r) ==
  /\ runs[r].pc = "start"
  /\ \E p \in Pids :
       /\ procs[p] = "free"
       /\ procs' = [procs EXCEPT ![p] = "running"]
       /\ runs' = [runs EXCEPT ![r].pc = "fds", ![r].pid = p]
  /\ UNCHANGED <<dirs, psocks>>
  /\ UNCHANGED <<runVars, findVars, envVars, procVars>>

\* A driver binds a loopback socket: live sockets have distinct inodes and
\* distinct ports.
pair_listen(s) ==
  /\ PairDiscovering
  /\ procs[s.pid] = "running"
  /\ Cardinality({x \in psocks : x.pid = s.pid}) < MaxSocks
  /\ \A x \in psocks : x.inode # s.inode /\ x.port # s.port
  /\ psocks' = psocks \cup {s}
  /\ UNCHANGED <<runs, procs, dirs>>
  /\ UNCHANGED <<runVars, findVars, envVars, procVars>>

\* A driver closes a socket; its inode number and its port become free again.
pair_close(s) ==
  /\ PairDiscovering
  /\ s \in psocks
  /\ psocks' = psocks \ {s}
  /\ runs' = [r \in Runs |->
               IF runs[r].pc = "scan" THEN [runs[r] EXCEPT !.stale = TRUE] ELSE runs[r]]
  /\ UNCHANGED <<procs, dirs>>
  /\ UNCHANGED <<runVars, findVars, envVars, procVars>>

\* `socket_inodes(pid)?.collect()`: the descriptors of the run's own process.
pair_read_fds(r) ==
  /\ runs[r].pc = "fds"
  /\ runs' = [runs EXCEPT ![r].pc = "scan", ![r].stale = FALSE,
                          ![r].inodes = {s.inode : s \in {x \in psocks : x.pid = runs[r].pid}}]
  /\ UNCHANGED <<procs, dirs, psocks>>
  /\ UNCHANGED <<runVars, findVars, envVars, procVars>>

\* `tcp::parse(pid)?.find(...)` and the match on its result: the table lists
\* the sockets of every process, in any order; without a match the run sleeps
\* and tries again, or gives up on the timeout.
pair_scan(r) ==
  /\ runs[r].pc = "scan"
  /\ \E M \in {{s \in psocks : s.inode \in runs[r].inodes}} :
       IF M = {}
       THEN \E to \in {"fds", "kill"} :
              runs' = [runs EXCEPT ![r].pc = to, ![r].inodes = {}]
       ELSE \E s \in M :
              runs' = [runs EXCEPT ![r].pc = "tempdir", ![r].port = s.port,
                                   ![r].inodes = {},
                                   ![r].from = IF s.pid = runs[r].pid THEN "own"
                                               ELSE "other"]
  /\ UNCHANGED <<procs, dirs, psocks>>
  /\ UNCHANGED <<runVars, findVars, envVars, procVars>>

\* TempDir::new creates a directory under a name that does not exist.
FreshNames_any(D) == Names
FreshNames(D) == Names \ D

\* `TempDir::new()`
pair_tempdir(r) ==
  /\ runs[r].pc = "tempdir"
  /\ \E n \in FreshNames(dirs) :
       /\ dirs' = dirs \cup {n}
       /\ runs' = [runs EXCEPT ![r].pc = "body", ![r].dir = n]
  /\ UNCHANGED <<procs, psocks>>
  /\ UNCHANGED <<runVars, findVars, envVars, procVars>>

\* The end of the closure of with_fantoccini: the TempDir is dropped.
pair_body(r) ==
  /\ runs[r].pc = "body"
  /\ dirs' = dirs \ {runs[r].dir}
  /\ runs' = [runs EXCEPT ![r].pc = "kill", ![r].dir = 0]
  /\ UNCHANGED <<procs, psocks>>
  /\ UNCHANGED <<runVars, findVars, envVars, procVars>>

\* `child.kill().await` of with_child: the process of the handle is killed
\* and reaped, its sockets are gone and its pid is free again.
pair_kill(r) ==
  /\ runs[r].pc = "kill"
  /\ procs' = [procs EXCEPT ![runs[r].pid] = "free"]
  /\ psocks' = {s \in psocks : s.pid # runs[r].pid}
  /\ runs' = [runs EXCEPT ![r].pc = "done", ![r].pid = 0, ![r].port = 0]
  /\ UNCHANGED dirs
  /\ UNCHANGED <<runVars, findVars, envVars, procVars>>

InitPair ==
  /\ RunIdle /\ ProcIdle
  /\ runs = [r \in Runs |-> NewRun]
  /\ procs = [p \in Pids |-> "free"]
  /\ dirs = {}
  /\ psocks = {}

NextPair ==
  \/ \E r \in Runs : pair_spawn(r)
  \/ \E s \in PSocket : pair_listen(s)
  \/ \E s \in PSocket : pair_close(s)
  \/ \E r \in Runs : pair_read_fds(r)
  \/ \E r \in Runs : pair_scan(r)
  \/ \E r \in Runs : pair_tempdir(r)
  \/ \E r \in Runs : pair_body(r)
  \/ \E r \in Runs : pair_kill(r)

SpecPair == InitPair /\ [][NextPair]_vars

----
\* The first attempt of find_localhost_port of lib.rs on a machine whose
\* sockets stay as they are while it runs: up to MaxTableSocks sockets, of the
\* driver or of other processes, so that a table can hold more than one
\* matching entry.

\* The sets of up to n live sockets: live sockets have distinct inodes.
RECURSIVE SocketSetsUpTo(_)
SocketSetsUpTo(n) ==
  IF n = 0 THEN {{}}
  ELSE LET P == SocketSetsUpTo(n - 1)
       IN  P \cup {S \cup {x} : <<S, x>> \in
                     {q \in P \X Socket : \A y \in q[1] : y.inode # q[2].inode}}

SocketSets == SocketSetsUpTo(MaxTableSocks)

InitFind ==
  /\ prog = "lib" /\ opts = DefaultOpts /\ pc = "discover"
  /\ child = "running" /\ kills = 0 /\ dataDir = "none" /\ calls = <<>>
  /\ bodyResult = "none" /\ result = "none"
  /\ socks \in SocketSets
  /\ clock = 0
  /\ fpc = "idle" /\ start = 0 /\ inodes = {} /\ found = NoItem /\ port = 0
  /\ ferr = "none" /\ wake = 0 /\ slept = FALSE
  /\ held = {} /\ closedSinceFds = FALSE
  /\ ProcIdle
  /\ PairIdle

NextFind ==
  \/ find_start
  \/ find_read_fds
  \/ find_scan
  \/ find_match

SpecFind == InitFind /\ [][NextFind]_vars

----
\* Properties.

\* The session operations of `calls` named op.
CallsOf(op) == {i \in 1..Len(calls) : calls[i].op = op}
Failed(ops) == \E i \in 1..Len(calls) : calls[i].op \in ops /\ ~calls[i].ok
Connected == \E i \in CallsOf("connect") : calls[i].ok
CaptureOps == {"find", "element_screenshot", "screenshot"}

\* find_localhost_port has just returned to with_fantoccini's closure, and
\* the closure has not gone on yet.
Returned == fpc = "done" /\ pc \in {"connect", "kill"} /\ (pc = "kill" => ferr # "none")
ReturnedPort == Returned /\ ferr = "none"

DriverSocks == {s \in socks : s.owner = "driver"}

\* C1: once the driver process was spawned, every exit path of a run has
\* killed it exactly once (also the path on which the process reports no pid).
C1_KilledExactlyOnce == (pc = "done" /\ child # "none") => kills = 1

\* C2: when the body that with_child runs failed and the teardown fails too,
\* the run returns the error of the body, never the teardown's.
C2_PrimaryErrorReturned ==
  (prog = "lib" /\ pc = "done" /\ bodyResult \notin {"none", "ok"}) => result = bodyResult

\* C3: a run that connected the session has invoked close exactly once when
\* it ends, whether the capture sequence succeeded or one of its steps failed.
C3_ClosedExactlyOnce ==
  (pc = "done" /\ Connected) => Cardinality(CallsOf("close")) = 1

\* C4: when the capture failed and the session close failed after it, the run
\* reports the capture failure.
C4_CaptureFailureReported ==
  (pc = "done" /\ Failed(CaptureOps) /\ Failed({"close"})) => result \in CaptureOps

\* The place of an operation in the fixed order of C5.
OpRank(op) ==
  CASE op = "connect" -> 1
    [] op = "set_window_size" -> 2
    [] op = "goto" -> 3
    [] op = "wait" -> 4
    [] op = "execute" -> 5
    [] op = "find" -> 6
    [] op \in {"element_screenshot", "screenshot"} -> 7
    [] op = "close" -> 8

\* C5: the session operations of a run occur in the order connect, set window
\* size, navigate, wait (only if an await selector is configured), execute the
\* removal (only if a remove selector is configured), capture, close; none is
\* invoked before one that precedes it, each one follows the success of the
\* one before it, and a configured optional step is not left out.
C5_FixedOrder ==
  /\ \A i, j \in 1..Len(calls) : i < j => OpRank(calls[i].op) < OpRank(calls[j].op)
  /\ \A i \in 1..Len(calls) : i < Len(calls) /\ calls[i + 1].op # "close" => calls[i].ok
  /\ CallsOf("wait") # {} => opts.await_selector # None
  /\ CallsOf("execute") # {} => opts.remove_selector # None
  /\ \A i \in 1..Len(calls) :
       /\ OpRank(calls[i].op) > 1 => CallsOf("connect") # {}
       /\ OpRank(calls[i].op) \in 3..7 => CallsOf("set_window_size") # {}
       /\ OpRank(calls[i].op) \in 4..7 => CallsOf("goto") # {}
       /\ OpRank(calls[i].op) \in 5..7 /\ opts.await_selector # None => CallsOf("wait") # {}
       /\ OpRank(calls[i].op) \in 6..7 /\ prog = "cli" /\ opts.remove_selector # None
            => CallsOf("execute") # {}

C5_Witness ==
  /\ pc = "done" /\ Len(calls) = 8
  /\ calls[4].op = "wait" /\ calls[5].op = "execute" /\ calls[8].op = "close"

\* C6: a connect is attempted only after the discovery returned a port, and
\* it goes to the loopback address with exactly that port.
C6_ConnectAfterDiscovery ==
  \A i \in CallsOf("connect") :
    /\ calls[i].arg = <<LOCALHOST, port>>
    /\ port \in Ports
    /\ prog = "lib" => fpc = "done" /\ ferr = "none"

C6_Witness ==
  prog = "lib" /\ Connected /\ port = MaxPort /\ pc = "done"

\* C7: a port that find_localhost_port returns is the port of the table entry
\* its attempt selected, and that entry has an inode of the attempt's inode
\* set and the address 127.0.0.1.
C7_PortFromMatchingEntry ==
  ReturnedPort =>
    /\ found.kind = "ok"
    /\ found.port = port
    /\ found.inode \in inodes
    /\ found.addr = LOCALHOST

C7_Witness ==
  /\ ReturnedPort /\ slept
  /\ port = MaxPort
  /\ \E s \in DriverSocks : s.port = port /\ s.inode = MaxInode

\* C8 as stated: whatever the other processes and the driver do between the
\* two reads and the return, a returned port is bound by the driver process
\* at the moment it is returned.
C8_BoundWhenReturned ==
  ReturnedPort => \E s \in DriverSocks : s.port = port

\* C8 as amended: a returned port is bound by the driver process on
\* 127.0.0.1 at the moment it is returned, provided no socket was closed
\* since the attempt enumerated the descriptors.
C8_BoundUnlessClosed ==
  (ReturnedPort /\ ~closedSinceFds) =>
    \E s \in DriverSocks : s.port = port /\ s.addr = LOCALHOST /\ s.inode = found.inode

C8_Witness ==
  /\ ReturnedPort /\ ~closedSinceFds
  /\ \E s \in DriverSocks : s.inode = found.inode /\ s.inode = FileInode

\* C9: the timeout error is returned exactly when an attempt found nothing and
\* at least PORT_FIND_TIMEOUT has passed since the discovery began (`start` is
\* the time of the call and stays); an attempt that found nothing earlier is
\* followed by a sleep of 1 ms and then by another attempt.
C9_TimeoutFromStart ==
  [][/\ (fpc = "idle" /\ fpc' # "idle") => start' = clock
     /\ (fpc \notin {"idle", "done"} /\ fpc' # "idle") => start' = start
     /\ (fpc = "match" /\ fpc' # "match" /\ found.kind = "none") =>
          IF clock - start >= PORT_FIND_TIMEOUT
          THEN fpc' = "done" /\ ferr' = "timeout"
          ELSE fpc' = "sleep" /\ wake' = clock + SleepMs
     /\ (ferr' = "timeout" /\ ferr # "timeout") =>
          /\ clock - start >= PORT_FIND_TIMEOUT
          /\ fpc = "match" /\ found.kind = "none"
     /\ (fpc = "sleep" /\ fpc' # "sleep") => fpc' = "fds" /\ clock >= wake
    ]_vars

C9_Witness ==
  /\ Returned /\ ferr = "timeout"
  /\ start > 0 /\ slept
  /\ clock - start >= PORT_FIND_TIMEOUT

\* C10 as stated: if the process has a loopback listener when the discovery
\* starts (and keeps it, and the reads of the proc files succeed), the
\* discovery returns that listener's port, without an error and without a sleep.
C10_ListenerPortReturned ==
  (Returned /\ held # {} /\ ferr # "io") =>
    /\ ferr = "none"
    /\ port \in {s.port : s \in held}
    /\ ~slept

\* C10 as amended: if the process has a loopback listener when the discovery
\* starts and keeps it, the discovery ends in its first attempt, without a
\* sleep and without the timeout error: with the port of the first matching
\* entry, or with the error of a failed read or of a failed line ahead of the
\* match.  The port is the listener's if the listener is the only loopback
\* socket of the process and no socket was closed during the attempt.
C10_FirstAttemptDecides ==
  (Returned /\ held # {}) =>
    /\ ~slept
    /\ ferr \in {"none", "parse", "io"}
    /\ ferr = "none" => port = found.port /\ found.addr = LOCALHOST /\ found.inode \in inodes
    /\ (/\ ferr = "none" /\ ~closedSinceFds
        /\ {s \in DriverSocks : s.addr = LOCALHOST} = held
        /\ Cardinality(held) = 1) => port \in {s.port : s \in held}

C10_Witness ==
  /\ ReturnedPort /\ held # {} /\ ~slept
  /\ port \in {s.port : s \in held}
  /\ clock - start < PORT_FIND_TIMEOUT

\* C11 as stated: a table line that fails to parse never makes
\* find_localhost_port return an error while the timeout has not elapsed.
C11_BadLineNonFatal ==
  (Returned /\ clock - start < PORT_FIND_TIMEOUT) => ferr # "parse"

\* The positions of the failed items of t, and of the entries of t that the
\* attempt is looking for.
BadAt(t) == {i \in 1..Len(t) : t[i].kind = "err"}
HitAt(t, ino) ==
  {i \in 1..Len(t) : t[i].kind = "ok" /\ t[i].inode \in ino /\ t[i].addr = LOCALHOST}

\* C11 as amended: a failed line that follows the first matching entry is
\* never reached and changes nothing; a failed line that precedes every
\* matching entry (or stands in a table without one) is what the search
\* selects, and find_localhost_port then returns that error at once, without
\* a retry and whether or not the timeout has elapsed.
C11_BadLineFatalIfFirst ==
  /\ (Discovering /\ fpc = "scan") =>
       \A t \in Tables :
         \A f \in {find(t, inodes)} : \A H \in {HitAt(t, inodes)} : \A B \in {BadAt(t)} :
           /\ f.kind = "err" <=> (B # {} /\ \A h \in H : \E e \in B : e < h)
           /\ f.kind = "ok" <=> (H # {} /\ \E h \in H : \A e \in B : h < e)
  /\ fpc \in {"sleep", "fds", "scan"} => found.kind = "none"
  /\ (Returned /\ found.kind = "err") => ferr = "parse"
  /\ (Returned /\ ferr = "parse") => found.kind = "err"

C11_Witness ==
  /\ Returned /\ ferr = "parse" /\ pc = "kill"
  /\ held # {} /\ ~slept
  /\ clock - start < PORT_FIND_TIMEOUT

\* The lines of the first k lines of the file that are not blank and follow
\* the header (the first line that is not blank).
NonBlank(k) == SelectSeq(SubSeq(tcpFile, 1, k), LAMBDA l : l # <<>>)
DataLines(k) == IF NonBlank(k) = <<>> THEN <<>> ELSE Tail(NonBlank(k))

\* The items the iterator returned for lines: all but the end and the errors
\* of reads that failed.
Parsed == SelectSeq(tcpItems, LAMBDA x : x # TcpEnd /\ x # TcpErr("read"))

HexChars == {DigitsUpper[i] : i \in 1..16}
DecChars == {DigitsUpper[i] : i \in 1..10}

RECURSIVE StripZeros(_)
StripZeros(t) == IF t # <<>> /\ Head(t) = "0" THEN StripZeros(Tail(t)) ELSE t

\* Decimal numerals of equal length: a is at most b.
NumeralLeq(a, b) ==
  a = b \/ \E i \in 1..Len(a) :
             /\ to_digit(a[i], 10) < to_digit(b[i], 10)
             /\ \A j \in 1..(i - 1) : a[j] = b[j]

\* A well-formed data line: at least ten tokens, the second one eight hex
\* digits, a colon and four hex digits, the tenth one a decimal numeral of a
\* 64 bit number.
WellFormed(l) ==
  /\ Len(l) >= 10
  /\ Len(l[2]) = 13 /\ l[2][9] = ":"
  /\ \A i \in (1..13) \ {9} : l[2][i] \in HexChars
  /\ l[10] # <<>> /\ \A i \in 1..Len(l[10]) : l[10][i] \in DecChars
  /\ \/ Len(StripZeros(l[10])) < Len(InodeMax)
     \/ Len(StripZeros(l[10])) = Len(InodeMax) /\ NumeralLeq(StripZeros(l[10]), InodeMax)

WellFormed_of == [l \in LineSamples |-> WellFormed(l)]

\* C12: a malformed data line yields one error item for that line only, and
\* the sequence goes on: the items returned for lines are, one for one and in
\* order, the results of the lines after the header that are not blank (an
\* entry for a well-formed line, an error for any other), also for the lines
\* that follow a malformed one; at the end every line has been consumed.
C12_ErrorPerLine ==
  unit = "tcp" =>
    \A P \in {Parsed} : \A D \in {DataLines(tcpPos)} :
      /\ Len(P) = Len(D)
      /\ \A i \in 1..Len(P) :
           /\ P[i] = parse_tcp_line_of[D[i]]
           /\ P[i].kind = "ok" <=> WellFormed_of[D[i]]
      /\ Ended(tcpItems, TcpEnd) => tcpPos = Len(tcpFile)

C12_Witness ==
  /\ unit = "tcp" /\ Ended(tcpItems, TcpEnd) /\ readErrs = 0
  /\ Len(Parsed) = 2
  /\ DataLines(tcpPos)[1] \in {Line(LocalNoColon, InodeLoopback, 11),
                               Line(LocalLoopback, InodeLoopback, 9)}
  /\ Parsed[1].kind = "err" /\ Parsed[2].kind = "ok"

\* The number a byte sequence stands for, divided by ten: quotient and
\* remainder.
RECURSIVE div10(_, _)
div10(v, r) ==
  IF v = <<>> THEN [q |-> <<>>, r |-> r]
  ELSE LET cur == r * 256 + Head(v)
           rest == div10(Tail(v), cur % 10)
       IN  [q |-> <<cur \div 10>> \o rest.q, r |-> rest.r]

\* The decimal numeral of a byte sequence, without leading zeros.
RECURSIVE ToDecimal(_)
ToDecimal(v) ==
  IF \A i \in 1..Len(v) : v[i] = 0 THEN <<>>
  ELSE ToDecimal(div10(v, 0).q) \o <<DigitsUpper[div10(v, 0).r + 1]>>

\* The value of the two hex digits of t at i and i + 1.
HexPair(t, i) == 16 * to_digit(t[i], 16) + to_digit(t[i + 1], 16)

\* C13: the entry parsed from a well-formed line has the bytes of the address
\* field in reversed order as its octets (0100007F gives 127.0.0.1), the port
\* field read as a 16 bit hex number as its port (B1AB gives 45483), and the
\* decimal value of the tenth token as its inode.
C13_FieldsDecoded ==
  unit = "tcp" =>
    \A P \in {Parsed} : \A D \in {DataLines(tcpPos)} :
      \A i \in 1..Len(P) : \A l \in {D[i]} :
        WellFormed_of[l] =>
          /\ P[i].kind = "ok"
          /\ P[i].addr = <<HexPair(l[2], 7), HexPair(l[2], 5),
                           HexPair(l[2], 3), HexPair(l[2], 1)>>
          /\ P[i].port = 256 * HexPair(l[2], 10) + HexPair(l[2], 12)
          /\ ToDecimal(P[i].inode) = StripZeros(l[10])
          /\ l[2] = LocalLoopback => P[i].addr = LOCALHOST /\ P[i].port = 45483

C13_Witness ==
  /\ unit = "tcp" /\ Len(Parsed) = 2
  /\ Parsed[1].kind = "ok" /\ Parsed[1].addr = LOCALHOST /\ Parsed[1].port = 45483
  /\ ToDecimal(Parsed[1].inode) = InodeLoopback
  /\ Parsed[2].kind = "ok" /\ Parsed[2].addr = <<192, 168, 0, 12>> /\ Parsed[2].port = 53916

\* The items socket_inodes returned for directory entries.
Yielded == SelectSeq(fdItems, LAMBDA x : x # FdEnd)

\* C14 as stated: the enumeration never yields an error item; only the
\* failure to open the directory is reported.
C14_NoErrorItem ==
  unit = "fd" => \A i \in 1..Len(fdItems) : fdItems[i].kind # "err"

\* C14 as amended: the enumeration yields, in directory order, the inode of
\* every entry that is a socket and one error item for every entry that
\* read_dir failed to read; an entry that is not a socket or whose stat fails
\* yields nothing.  If the directory cannot be opened that one error is all
\* the enumeration reports.
C14_SocketsAndReadErrors ==
  unit = "fd" =>
    \A Y \in {Yielded} :
      \A E \in {SelectSeq(SubSeq(fdDir, 1, fdPos),
                          LAMBDA e : e.kind \in {"sock", "unreadable"})} :
        /\ fdRes # "ok" => fdItems = <<>>
        /\ Len(Y) = Len(E)
        /\ \A i \in 1..Len(Y) :
             Y[i] = IF E[i].kind = "sock" THEN FdOk(E[i].inode) ELSE FdErr
        /\ Ended(fdItems, FdEnd) => fdPos = Len(fdDir)

C14_Witness ==
  /\ unit = "fd" /\ Ended(fdItems, FdEnd) /\ Len(Yielded) = 2
  /\ fdDir[1].kind = "nostat" /\ fdDir[2].kind = "unreadable" /\ fdDir[3].kind = "sock"
  /\ Yielded[1] = FdErr /\ Yielded[2] = FdOk(fdDir[3].inode)

\* C15: a run invokes at most one of the two capture operations, the element
\* screenshot only if a screenshot selector is configured and the full page
\* screenshot only if none is, whatever the other options are; a run that
\* captured successfully has invoked exactly one.
C15_OneCaptureBySelector ==
  /\ Cardinality(CallsOf("element_screenshot")) + Cardinality(CallsOf("screenshot")) <= 1
  /\ CallsOf("element_screenshot") # {} => opts.selector # None
  /\ CallsOf("screenshot") # {} => opts.selector = None
  /\ CallsOf("find") # {} => opts.selector # None
  /\ (pc = "done" /\ bodyResult = "ok" /\ opts.command = "screenshot") =>
       Cardinality(CallsOf("element_screenshot")) + Cardinality(CallsOf("screenshot")) = 1

C15_Witness ==
  /\ prog = "cli" /\ pc = "done" /\ result = "ok"
  /\ opts.selector # None /\ opts.await_selector = None /\ opts.remove_selector # None
  /\ CallsOf("element_screenshot") # {}

\* C16: when the run is cancelled at an await after the driver process was
\* spawned, the teardown has still run: the process was killed (once), and no
\* capture result is delivered.
C16_KilledWhenCancelled ==
  (pc = "done" /\ result = "cancelled") => (kills = 1 /\ child = "killed")

C18_NoLaterStage ==
  /\ (prog = "lib" /\ ferr # "none") => (dataDir = "none" /\ calls = <<>>)
  /\ (prog = "lib" /\ pc = "done" /\ ferr # "none" /\ child = "killed") => result = ferr
  /\ \A i, j \in 1..Len(calls) :
       (i < j /\ ~calls[i].ok) =>
         /\ calls[i].op # "connect"
         /\ calls[j].op = "close" /\ prog = "cli"

C18_Witness ==
  /\ prog = "lib" /\ pc = "done" /\ ferr = "timeout" /\ result = "timeout"
  /\ kills = 1 /\ calls = <<>>

\* C19: apart from the poll loop of the port discovery nothing is retried.  In
\* one run the driver is spawned only at the start, and each of connect,
\* set-window-size, navigate, wait-for-element, execute-script, find-element,
\* screenshot (of the element or of the page) and close is invoked at most
\* once, whether it succeeded or failed; the process is killed at most once.
C19_NothingRetried ==
  /\ pc = "start" => (child = "none" /\ calls = <<>> /\ kills = 0)
  /\ child = "none" => pc \in {"start", "done"}
  /\ \A i, j \in 1..Len(calls) :
       i # j => /\ calls[i].op # calls[j].op
                /\ {calls[i].op, calls[j].op} # {"screenshot", "element_screenshot"}
  /\ kills <= 1

C19_Witness ==
  /\ pc = "done" /\ Failed({"goto"})
  /\ Cardinality(CallsOf("goto")) = 1 /\ Cardinality(CallsOf("connect")) = 1
  /\ Cardinality(CallsOf("set_window_size")) = 1
  /\ kills = 1

\* C20: the window-sizing step sets the window to the configured dimensions
\* when window_size is given and to the default 3840x2160 when it is not, and
\* the sizing has succeeded before the navigation is invoked.
C20_WindowSized ==
  /\ \A i \in CallsOf("set_window_size") :
       /\ opts.window_size # None =>
            /\ <<0, 0>> \o calls[i].arg[1] = opts.window_size[1][1]
            /\ <<0, 0>> \o calls[i].arg[2] = opts.window_size[1][2]
       /\ opts.window_size = None =>
            calls[i].arg = <<U32(DefaultWidth), U32(DefaultHeight)>>
  /\ \A j \in CallsOf("goto") :
       \E i \in CallsOf("set_window_size") : i < j /\ calls[i].ok

\* The positions of the lines of the file that are not blank, and the position
\* of the first of them (0 if every line is blank).
NonBlankAt == {i \in 1..Len(tcpFile) : tcpFile[i] # Blank}
HeaderAt == IF NonBlankAt = {} THEN 0 ELSE CHOOSE i \in NonBlankAt : \A j \in NonBlankAt : i <= j

\* C21: the first line that is not blank is the header whatever its content and
\* yields no item; blank lines yield no item and are not taken for the header.
\* The header counts as skipped exactly when the first non-blank line has been
\* read, the items returned for lines are as many as the non-blank lines read
\* after it (no row is dropped, the header is not parsed as data), and an item
\* returned for a line is the result of a non-blank line after the header.
C21_HeaderPositional ==
  unit = "tcp" =>
    \A h \in {HeaderAt} : \A N \in {NonBlankAt} :
      /\ skipped_header <=> (h # 0 /\ h <= tcpPos)
      /\ Len(Parsed) = Cardinality({i \in N : h < i /\ i <= tcpPos})
      /\ (tcpItems # <<>> /\ tcpItems[Len(tcpItems)] \notin {TcpEnd, TcpErr("read")}) =>
           /\ tcpPos \in N /\ h < tcpPos
           /\ tcpItems[Len(tcpItems)] = parse_tcp_line_of[tcpFile[tcpPos]]

C21_Witness ==
  /\ unit = "tcp" /\ Ended(tcpItems, TcpEnd)
  /\ tcpFile = <<Blank, Line(LocalLoopback, InodeLoopback, 11), Line(LocalLan, InodeLan, 10)>>
  /\ tcpItems = <<parse_tcp_line_of[Line(LocalLan, InodeLan, 10)], TcpEnd>>

\* C22: a read error on the source ends the entry sequence: the error item is
\* the terminal item, nothing is returned after it when the iterator is
\* advanced again.
C22_ReadErrorTerminal ==
  unit = "tcp" =>
    \A i \in 1..Len(tcpItems) : tcpItems[i] = TcpErr("read") => i = Len(tcpItems)

\* C23: Client::destroy closes the session, then destroys the driver process,
\* then removes the profile directory, and the failure of a step returns at
\* once.  The session is still to be closed and the driver running when
\* destroy starts; the driver is destroyed only after a close that succeeded,
\* with the directory still in place; the directory is removed by destroy only
\* after the driver was destroyed; a failed step ends the run with the error of
\* destroy.
C23_DestroyOrder ==
  prog = "cli" =>
    /\ pc = "destroy" =>
         (CallsOf("close") = {} /\ child = "running" /\ kills = 0 /\ dataDir = "exists")
    /\ pc = "destroy_chromedriver" =>
         /\ \E i \in CallsOf("close") : calls[i].ok
         /\ child = "running" /\ kills = 0 /\ dataDir = "exists"
    /\ pc = "destroy_data_dir" =>
         /\ \E i \in CallsOf("close") : calls[i].ok
         /\ child = "killed" /\ kills = 1 /\ dataDir = "exists"
    /\ (kills >= 1 /\ Connected) => CallsOf("close") # {}
    /\ (pc = "done" /\ Connected
          /\ (Failed({"close"}) \/ child = "dropped" \/ dataDir = "leaked")) =>
         result = "destroy"
    /\ (pc = "done" /\ child = "dropped") => ~Failed({"close"})

C23_Witness ==
  /\ prog = "cli" /\ pc = "done" /\ child = "dropped" /\ kills = 1
  /\ \E i \in CallsOf("close") : calls[i].ok
  /\ result = "destroy"

\* A run that holds a process handle, and a run that holds a directory.
HasChild(r) == runs[r].pc \in {"fds", "scan", "tempdir", "body", "kill"}
HasDir(r) == runs[r].pc = "body"

\* Each run kills only the process it spawned and removes only the directory
\* it created: while a run holds its handle its process is running, whatever
\* the other run has killed, and two such runs have different processes;
\* while a run holds its directory the directory exists, whatever the other
\* run has removed, and two such runs have different directories.
OwnResources ==
  /\ \A r \in Runs : HasChild(r) => procs[runs[r].pid] = "running"
  /\ \A r \in Runs : HasDir(r) => runs[r].dir \in dirs
  /\ \A r, q \in Runs :
       r # q =>
         /\ (HasChild(r) /\ HasChild(q)) => runs[r].pid # runs[q].pid
         /\ (HasDir(r) /\ HasDir(q)) => runs[r].dir # runs[q].dir

\* C24 as stated: concurrent runs share no mutable state, and the discovery of
\* a run never returns a port from a socket of another process than its own.
C24_NeverOthersPort ==
  /\ OwnResources
  /\ \A r \in Runs : runs[r].from \in {"none", "own"}

\* C24 as amended: each run kills only its own process and removes only its
\* own directory, and its discovery returns a port from a socket of its own
\* process provided no socket was closed between the enumeration of the
\* descriptors and the scan of the table (the inode number of a closed socket
\* can be given to a socket of the other driver).
C24_OwnUnlessClosed ==
  /\ OwnResources
  /\ \A r \in Runs :
       ~runs[r].stale => runs[r].from \in {"none", "own"}

C24_Witness ==
  /\ \A r \in Runs : HasDir(r) /\ runs[r].from = "own" /\ ~runs[r].stale
  /\ Cardinality(psocks) = 2
  /\ runs[1].port # runs[2].port

\* The smallest element of a set of positions.
FirstOf(H) == CHOOSE i \in H : \A j \in H : i <= j

\* The table without the failed items that follow position k.
DropBadAfter(t, k) ==
  SubSeq(t, 1, k) \o SelectSeq(SubSeq(t, k + 1, Len(t)), LAMBDA x : x.kind # "err")

\* C25: when several entries of the table of one attempt match, the port
\* returned is the port of the first of them in table order, and a failed line
\* after that first match changes nothing.  For every table the attempt can
\* read in which no failed line precedes the first matching entry, `find`
\* selects that entry, as it does in the same table without the failed lines
\* that follow it; the item the attempt selected is such a selection, and the
\* port returned is the port of that item.
C25_FirstMatchInOrder ==
  /\ (Discovering /\ fpc = "scan") =>
       \A t \in Tables :
         \A H \in {HitAt(t, inodes)} : \A B \in {BadAt(t)} :
           (H # {} /\ \A e \in B : FirstOf(H) < e) =>
             /\ find(t, inodes) = t[FirstOf(H)]
             /\ find(DropBadAfter(t, FirstOf(H)), inodes) = t[FirstOf(H)]
  /\ (Discovering /\ fpc = "match" /\ found.kind = "ok") =>
       \E t \in Tables : HitAt(t, inodes) # {} /\ found = t[FirstOf(HitAt(t, inodes))]
  /\ ReturnedPort => (found.kind = "ok" /\ port = found.port)

C25_Witness ==
  /\ ReturnedPort /\ ~slept /\ port = MaxPort
  /\ Cardinality({s \in DriverSocks : s.addr = LOCALHOST /\ s.inode \in inodes}) = 2
  /\ \E s \in DriverSocks : s.addr = LOCALHOST /\ s.port # port

\* C26: find_localhost_port looks at the timeout only after an attempt that
\* found no match.  The discovery begins with an attempt, an attempt is the
\* enumeration of the descriptors followed by the scan of the table, a sleep
\* comes only after an attempt without a match and is followed by another
\* attempt, the timeout error comes only from such an attempt, and an attempt
\* that selected an entry returns its port however late it is.
C26_TimeoutAfterAttempt ==
  [][/\ (fpc = "idle" /\ fpc' # "idle") => fpc' = "fds"
     /\ (fpc = "fds" /\ fpc' # "fds") =>
          (fpc' = "scan" \/ (fpc' = "done" /\ ferr' = "io"))
     /\ (fpc = "scan" /\ fpc' # "scan") =>
          (fpc' = "match" \/ (fpc' = "done" /\ ferr' = "io"))
     /\ (fpc' = "sleep" /\ fpc # "sleep") => (fpc = "match" /\ found.kind = "none")
     /\ (fpc = "sleep" /\ fpc' # "sleep") => (fpc' = "fds" /\ ferr' = "none")
     /\ (ferr' = "timeout" /\ ferr # "timeout") => (fpc = "match" /\ found.kind = "none")
     /\ (fpc = "match" /\ fpc' = "done" /\ found.kind = "ok") =>
          (ferr' = "none" /\ port' = found.port /\ pc' = "connect")
    ]_vars

C26_Witness ==
  /\ ReturnedPort /\ slept
  /\ clock - start >= PORT_FIND_TIMEOUT
  /\ found.kind = "ok" /\ port = found.port

\* C27: in the one-shot run the profile directory is released before the
\* driver process is killed.  When with_child is about to kill, on every exit
\* path of the body, the directory is no longer in place (it was never
\* created, or its removal has been carried out or refused) and nothing has
\* been killed yet; while the directory is in place the process runs; the
\* close of the session, when there is one, is the last operation and precedes
\* the kill as well.
C27_DirReleasedBeforeKill ==
  prog = "lib" =>
    /\ pc = "kill" => (dataDir \in {"none", "removed", "leaked"} /\ kills = 0 /\ child = "running")
    /\ kills > 0 => (pc = "done" /\ dataDir # "exists")
    /\ dataDir = "exists" => (kills = 0 /\ child = "running")
    /\ CallsOf("close") # {} =>
         (pc \in {"kill", "done"} /\ calls[Len(calls)].op = "close" /\ dataDir # "exists")

C27_Witness ==
  /\ prog = "lib" /\ pc = "kill" /\ kills = 0 /\ child = "running"
  /\ dataDir = "removed"
  /\ \E i \in CallsOf("close") : calls[i].ok

\* The positions of the separators of the argument.
WinSepAt == {i \in 1..Len(winArg) : winArg[i] \in {"x", ",", " "}}

\* The digits of a component, after one leading "+".
WinDigits(t) == IF t # <<>> /\ Head(t) = "+" THEN Tail(t) ELSE t

\* A numeric component: decimal digits, after at most one "+", of a number
\* that a usize holds.
Numeric(t) ==
  /\ WinDigits(t) # <<>>
  /\ \A i \in 1..Len(WinDigits(t)) : WinDigits(t)[i] \in DecChars
  /\ \/ Len(StripZeros(WinDigits(t))) < Len(InodeMax)
     \/ /\ Len(StripZeros(WinDigits(t))) = Len(InodeMax)
        /\ NumeralLeq(StripZeros(WinDigits(t)), InodeMax)

\* C28: parse_window_size accepts exactly the arguments made of two numeric
\* components with one separator ('x', ',' or space) between them, and returns
\* the number before the separator as the width and the number after it as the
\* height; an argument with fewer than two components, with a third one, or
\* with a component that is not numeric is rejected.
C28_TwoNumbers ==
  (unit = "win" /\ winRes # NotParsed) =>
    IF Cardinality(WinSepAt) = 1
    THEN \A k \in WinSepAt :
           \A l \in {SubSeq(winArg, 1, k - 1)} : \A r \in {SubSeq(winArg, k + 1, Len(winArg))} :
             IF Numeric(l) /\ Numeric(r)
             THEN /\ winRes.ok
                  /\ ToDecimal(winRes.w) = StripZeros(WinDigits(l))
                  /\ ToDecimal(winRes.h) = StripZeros(WinDigits(r))
             ELSE ~winRes.ok
    ELSE ~winRes.ok

C28_Witness ==
  /\ unit = "win"
  /\ winArg = <<"3", "0", "0", "0", "x", "2", "0", "0", "0">>
  /\ winRes.ok
  /\ ToDecimal(winRes.w) = <<"3", "0", "0", "0">>
  /\ ToDecimal(winRes.h) = <<"2", "0", "0", "0">>

====
